---- MODULE Spec2Model ----
(***************************************************************************)
(* A model of pydub's AudioSegment (src/pydub/audio_segment.py): an        *)
(* immutable PCM buffer with millisecond slicing, gain, fades, overlay and *)
(* crossfaded append.  A segment is a record of its byte buffer and its    *)
(* four metadata attributes.  Buffers are sequences of bytes (0..255);     *)
(* samples are little-endian two's complement, as audioop reads them.      *)
(* Python floats are modelled as exact rationals <<n, d>> with d > 0.      *)
(***************************************************************************)
EXTENDS Integers, Sequences, FiniteSets, TLC

VARIABLES segs, last, spawn_default

vars == <<segs, last, spawn_default>>

----------------------------------------------------------------------------
(* Bounds of the model. *)

\* the most frames a constructed (decoded) segment holds
MaxFrames == 2
\* slice bounds, indices and overlay positions range over -MaxMs .. MaxMs
MaxMs == 3
\* crossfades range over 0 .. MaxCrossfade
MaxCrossfade == 2
\* integer repeat counts range over 0 .. MaxRepeat
MaxRepeat == 2

\* the frame rates of constructed segments (Hz); empty() adds the rate 1
Rates == {500, 1000, 3000}
Widths == {1, 2}
Channels == {1, 2}
\* the gains (dB) passed to apply_gain and fade
Gains == {0, -120}

----------------------------------------------------------------------------
(* Python values: None, float('inf') and integers, as tagged records. *)

None == [k |-> "none", v |-> 0]
Inf == [k |-> "inf", v |-> 0]
I(n) == [k |-> "int", v |-> n]
IsNone(x) == x.k = "none"
IsInf(x) == x.k = "inf"

Min(a, b) == IF a <= b THEN a ELSE b
Max(a, b) == IF a >= b THEN a ELSE b
Abs(a) == IF a < 0 THEN -a ELSE a

\* min(len(self), x) for x an integer or float('inf')
MinLen(n, x) == IF IsInf(x) THEN n ELSE Min(n, x.v)

\* int(n / d): truncation toward zero (d > 0)
Trunc(n, d) == IF n >= 0 THEN n \div d ELSE -((-n) \div d)

\* floor(n / d) (d > 0)
Floor(n, d) == n \div d

\* round(n / d) of Python 3: to the nearest integer, ties to the even one
Round(n, d) ==
    LET f == n \div d
        r2 == 2 * (n - f * d)
    IN  IF r2 < d THEN f
        ELSE IF r2 > d THEN f + 1
        ELSE IF f % 2 = 0 THEN f ELSE f + 1

RECURSIVE Gcd(_, _)
Gcd(a, b) == IF b = 0 THEN a ELSE Gcd(b, a % b)

----------------------------------------------------------------------------
(* Byte buffers. *)

\* data[i:j] of Python for integers i, j (negative ones count from the end)
PySlice(data, i, j) ==
    LET n == Len(data)
        lo == IF i < 0 THEN Max(i + n, 0) ELSE Min(i, n)
        hi == IF j < 0 THEN Max(j + n, 0) ELSE Min(j, n)
    IN  IF lo >= hi THEN <<>> ELSE SubSeq(data, lo + 1, hi)

\* data * k of Python: k copies, none for k <= 0
RECURSIVE Repeat(_, _)
Repeat(data, k) == IF k <= 0 THEN <<>> ELSE data \o Repeat(data, k - 1)

\* b''.join(chunks)
RECURSIVE Join(_)
Join(chunks) == IF chunks = <<>> THEN <<>> ELSE Head(chunks) \o Join(Tail(chunks))

Pow256(w) == IF w = 1 THEN 256 ELSE 65536

\* the signed sample of width w starting at byte i (1-based) of data
GetSample(data, i, w) ==
    LET u == IF w = 1 THEN data[i] ELSE data[i] + 256 * data[i + 1]
    IN  IF u >= Pow256(w) \div 2 THEN u - Pow256(w) ELSE u

\* the bytes of the signed sample v at width w
PutSample(v, w) ==
    LET u == IF v < 0 THEN v + Pow256(w) ELSE v
    IN  IF w = 1 THEN <<u>> ELSE <<u % 256, u \div 256>>

\* audioop's clipping to the range of a width-w sample
Clip(v, w) ==
    LET m == Pow256(w) \div 2
    IN  IF v > m - 1 THEN m - 1 ELSE IF v < -m THEN -m ELSE v

\* the samples of a buffer holding a whole number of them
Samples(data, w) == [i \in 1..(Len(data) \div w) |-> GetSample(data, (i - 1) * w + 1, w)]

RECURSIVE Bytes(_, _)
Bytes(samples, w) ==
    IF samples = <<>> THEN <<>> ELSE PutSample(Head(samples), w) \o Bytes(Tail(samples), w)

----------------------------------------------------------------------------
(* audioop, the sample arithmetic the segment delegates to.  Every function *)
(* returns [err, data]: audioop.error is raised for a buffer that is not a  *)
(* whole number of samples (frames), and nothing is returned then.          *)

NoError == ""
AudioopError == "audioop.error"
OkData(d) == [err |-> NoError, data |-> d]
ErrData(e) == [err |-> e, data |-> <<>>]

\* A factor is the rational (p + q / 10^6) / d with d > 0, kept in three
\* integers so that no product leaves the 32-bit range TLC computes in.
Factor(p, q, d) == [p |-> p, q |-> q, d |-> d]
Millionth == 1000 * 1000

\* floor(v * f): with v * p = q1 * d + r1 and q2 = floor(v * q / 10^6),
\* v * f = q1 + (r1 + q2 + t) / d for some 0 <= t < 1
FloorMul(v, f) ==
    Floor(v * f.p, f.d) + Floor(((v * f.p) % f.d) + Floor(v * f.q, Millionth), f.d)

\* one sample scaled by the factor f: floor, then clip
MulSample(v, f, w) == Clip(FloorMul(v, f), w)

\* audioop.mul(data, width, factor)
audioop_mul(data, w, f) ==
    IF Len(data) % w # 0 THEN ErrData(AudioopError)
    ELSE LET s == Samples(data, w)
         IN  OkData(Bytes([i \in DOMAIN s |-> MulSample(s[i], f, w)], w))

\* audioop.add(fragment1, fragment2, width)
audioop_add(d1, d2, w) ==
    IF Len(d1) % w # 0 \/ Len(d1) # Len(d2) THEN ErrData(AudioopError)
    ELSE LET s1 == Samples(d1, w)
             s2 == Samples(d2, w)
         IN  OkData(Bytes([i \in DOMAIN s1 |-> Clip(s1[i] + s2[i], w)], w))

\* audioop.reverse(data, width): the samples in reverse order
audioop_reverse(data, w) ==
    IF Len(data) % w # 0 THEN ErrData(AudioopError)
    ELSE LET s == Samples(data, w)
             n == Len(s)
         IN  OkData(Bytes([i \in 1..n |-> s[n + 1 - i]], w))

\* audioop.tostereo(data, width, 1, 1): every sample to both channels
audioop_tostereo(data, w) ==
    IF Len(data) % w # 0 THEN ErrData(AudioopError)
    ELSE LET s == Samples(data, w)
         IN  OkData(Bytes([i \in 1..(2 * Len(s)) |-> Clip(s[(i + 1) \div 2], w)], w))

\* audioop.tomono(data, width, 1, 1): the clipped sum of the two channels
audioop_tomono(data, w) ==
    IF Len(data) % w # 0 \/ Len(data) % (2 * w) # 0 THEN ErrData(AudioopError)
    ELSE LET s == Samples(data, w)
         IN  OkData(Bytes([i \in 1..(Len(s) \div 2) |-> Clip(s[(2 * i) - 1] + s[2 * i], w)], w))

\* the resampling loop of audioop.ratecv on frames (sequences of samples, one
\* per channel): an input frame is read while d < 0, an output frame is
\* interpolated between the last two input frames while d >= 0
RECURSIVE RatecvLoop(_, _, _, _, _, _)
RatecvLoop(inp, d, prev, cur, inrate, outrate) ==
    IF d < 0
    THEN IF inp = <<>> THEN <<>>
         ELSE RatecvLoop(Tail(inp), d + outrate, cur, Head(inp), inrate, outrate)
    ELSE <<[c \in DOMAIN cur |->
              Floor(prev[c] * d + cur[c] * (outrate - d), outrate)]>>
         \o RatecvLoop(inp, d - inrate, prev, cur, inrate, outrate)

\* audioop.ratecv(data, width, nchannels, inrate, outrate, None)[0]
audioop_ratecv(data, w, nchannels, inrate, outrate) ==
    IF Len(data) % (w * nchannels) # 0 THEN ErrData(AudioopError)
    ELSE LET g == Gcd(inrate, outrate)
             s == Samples(data, w)
             frames == [i \in 1..(Len(s) \div nchannels) |->
                          [c \in 1..nchannels |-> s[(i - 1) * nchannels + c]]]
             zero == [c \in 1..nchannels |-> 0]
             out == RatecvLoop(frames, -(outrate \div g), zero, zero,
                               inrate \div g, outrate \div g)
         IN  OkData(Bytes([i \in 1..(Len(out) * nchannels) |->
                             out[((i - 1) \div nchannels) + 1][((i - 1) % nchannels) + 1]], w))

\* utils.db_to_float(db) = 10 ** (db / 20) for the gains of the model:
\* 1 for 0 dB and 10^-6 for -120 dB
db_to_float(db) == IF db = 0 THEN Factor(1, 0, 1) ELSE Factor(0, 1, 1)

----------------------------------------------------------------------------
(* The segment: its buffer and the attributes __init__ sets from metadata. *)

EmptyDict == [k \in {} |-> 0]

\* dict.update: the entries of m, replaced and extended by those of o
Update(m, o) == [k \in DOMAIN m \cup DOMAIN o |-> IF k \in DOMAIN o THEN o[k] ELSE m[k]]

\* AudioSegment(data=data, metadata=metadata): one attribute per entry
AudioSegment(data, metadata) ==
    [data |-> data,
     sample_width |-> metadata["sample_width"],
     frame_rate |-> metadata["frame_rate"],
     frame_width |-> metadata["frame_width"],
     channels |-> metadata["channels"]]

\* AudioSegment.empty()
empty == AudioSegment(<<>>, [channels |-> 1, sample_width |-> 1,
                            frame_rate |-> 1, frame_width |-> 1])

\* the outcome of a call: the exception raised (NoError for none) and the
\* segment returned
OkSeg(s) == [err |-> NoError, seg |-> s]
ErrSeg(e) == [err |-> e, seg |-> empty]

\* the metadata mapping _spawn builds from self
Metadata(self) ==
    [sample_width |-> self.sample_width, frame_rate |-> self.frame_rate,
     frame_width |-> self.frame_width, channels |-> self.channels]

\* the update of _spawn written the other way round, overrides.update(metadata):
\* the metadata of self is left in the overrides mapping
SpawnOverridesAfterMerged(overrides, metadata) == Update(overrides, metadata)

\* the overrides mapping as _spawn leaves it: metadata.update(overrides)
\* writes to the fresh metadata mapping, never to overrides
SpawnOverridesAfter(overrides, metadata) == overrides

\* self._spawn(data, overrides)
_spawn(self, data, overrides) == AudioSegment(data, Update(Metadata(self), overrides))

\* frame_count() without the division by frame_width: the bytes of the buffer
frame_count_bytes(self) == Len(self.data)

\* self.frame_count(): the whole frames of the buffer
frame_count(self) == Len(self.data) \div self.frame_width

\* self.frame_count(ms=ms), the rational ms * frame_rate / 1000
frame_count_ms(self, ms) == <<ms * self.frame_rate, 1000>>

\* len(self): milliseconds, rounded
__len__(self) == Round(1000 * frame_count(self), self.frame_rate)

\* self._parse_position(val) for val an integer or float('inf')
_parse_position(self, val) ==
    LET ms == IF IsInf(val) THEN __len__(self)
              ELSE IF val.v < 0 THEN __len__(self) - Abs(val.v) ELSE val.v
        fc == frame_count_ms(self, ms)
    IN  Trunc(fc[1], fc[2])

\* the keys of __getitem__: slice(start, stop) and a single millisecond
Slice(start, stop) == [slice |-> TRUE, start |-> start, stop |-> stop]
Index(ms) == [slice |-> FALSE, start |-> I(ms), stop |-> None]

\* the bounds of self[key] in milliseconds (lines 91-100): those of a slice
\* are defaulted and then limited from above by len(self)
SliceStartMs(self, key) ==
    IF key.slice
    THEN I(MinLen(__len__(self), IF IsNone(key.start) THEN I(0) ELSE key.start))
    ELSE key.start

SliceEndMs(self, key) ==
    IF key.slice
    THEN I(MinLen(__len__(self), IF IsNone(key.stop) THEN I(__len__(self)) ELSE key.stop))
    ELSE I(key.start.v + 1)

\* the bounds of self[key] as byte offsets (lines 102-103)
SliceStart(self, key) == _parse_position(self, SliceStartMs(self, key)) * self.frame_width
SliceEnd(self, key) == _parse_position(self, SliceEndMs(self, key)) * self.frame_width

\* the end of __getitem__ (lines 106-118): data, the bytes between the two
\* offsets, is padded with silence for the frames it lacks
SlicePadded(self, data, missing_frames, silence) ==
    IF silence.err # NoError THEN ErrSeg(silence.err)
    ELSE OkSeg(_spawn(self, data \o Repeat(silence.data, missing_frames), spawn_default))

SliceData(self, data, missing_frames) ==
    IF missing_frames = 0 THEN OkSeg(_spawn(self, data, spawn_default))
    ELSE IF missing_frames * frame_count_ms(self, 2)[2] > frame_count_ms(self, 2)[1]
    THEN ErrSeg("TooManyMissingFrames")
    ELSE SlicePadded(self, data, missing_frames,
                     audioop_mul(PySlice(data, 0, self.frame_width), self.sample_width,
                                 Factor(0, 0, 1)))

\* data = self._data[start:end] and expected_length = end - start (lines 104-108)
SliceBytes(self, data, expected_length) ==
    SliceData(self, data, Floor(expected_length - Len(data), self.frame_width))

SliceOffsets(self, start, end) == SliceBytes(self, PySlice(self.data, start, end), end - start)

\* self[key]
__getitem__(self, key) == SliceOffsets(self, SliceStart(self, key), SliceEnd(self, key))

\* self.get_sample_slice(start_sample, end_sample)
get_sample_slice(self, start_sample, end_sample) ==
    LET max_val == frame_count(self)
        bounded(val, default) ==
            IF IsNone(val) THEN default
            ELSE IF val.v < 0 THEN 0
            ELSE IF val.v > max_val THEN max_val
            ELSE val.v
        start_i == bounded(start_sample, 0) * self.frame_width
        end_i == bounded(end_sample, max_val) * self.frame_width
        \* max_val is the float frame_count() returns: a bound that resolves
        \* to it is a float, which the buffer rejects as a slice index
        is_float(val, default_is_max) ==
            IF IsNone(val) THEN default_is_max ELSE val.v > max_val
    IN  IF is_float(start_sample, FALSE) \/ is_float(end_sample, TRUE)
        THEN ErrSeg("TypeError")
        ELSE OkSeg(_spawn(self, PySlice(self.data, start_i, end_i), spawn_default))

\* self.get_frame(index)
get_frame(self, index) ==
    PySlice(self.data, index * self.frame_width, index * self.frame_width + self.frame_width)

\* self.set_frame_rate(frame_rate)
set_frame_rate(self, frame_rate) ==
    IF frame_rate = self.frame_rate THEN OkSeg(self)
    ELSE LET converted ==
                 IF self.data # <<>>
                 THEN audioop_ratecv(self.data, self.sample_width, self.channels,
                                     self.frame_rate, frame_rate)
                 ELSE OkData(self.data)
         IN  IF converted.err # NoError THEN ErrSeg(converted.err)
             ELSE OkSeg(_spawn(self, converted.data, [frame_rate |-> frame_rate]))

\* self.set_channels(channels)
set_channels(self, channels) ==
    IF channels = self.channels THEN OkSeg(self)
    ELSE IF channels = 2 /\ self.channels = 1
    THEN LET converted == audioop_tostereo(self.data, self.sample_width)
         IN  IF converted.err # NoError THEN ErrSeg(converted.err)
             ELSE OkSeg(_spawn(self, converted.data,
                               [channels |-> channels, frame_width |-> self.frame_width * 2]))
    ELSE IF channels = 1 /\ self.channels = 2
    THEN LET converted == audioop_tomono(self.data, self.sample_width)
         IN  IF converted.err # NoError THEN ErrSeg(converted.err)
             ELSE OkSeg(_spawn(self, converted.data,
                               [channels |-> channels, frame_width |-> self.frame_width \div 2]))
    ELSE ErrSeg("UnboundLocalError")

\* the outcome of _sync: the exception raised and the two segments returned
SyncResult(e, s1, s2) == [err |-> e, seg1 |-> s1, seg2 |-> s2]

\* the end of _sync (lines 211-214): the lengths are asserted
SyncAsserted(s1_len, s2_len, seg1, seg2) ==
    IF __len__(seg1) # s1_len \/ __len__(seg2) # s2_len
    THEN SyncResult("AssertionError", seg1, seg2)
    ELSE SyncResult(NoError, seg1, seg2)

\* r1 and r2 are what the two calls of set_frame_rate return (lines 208-209)
SyncRates(s1_len, s2_len, r1, r2) ==
    IF r1.err # NoError THEN SyncResult(r1.err, empty, empty)
    ELSE IF r2.err # NoError THEN SyncResult(r2.err, empty, empty)
    ELSE SyncAsserted(s1_len, s2_len, r1.seg, r2.seg)

\* c1 and c2 are what the two calls of set_channels return (lines 204-205)
SyncChannels(s1_len, s2_len, c1, c2) ==
    IF c1.err # NoError THEN SyncResult(c1.err, empty, empty)
    ELSE IF c2.err # NoError THEN SyncResult(c2.err, empty, empty)
    ELSE SyncRates(s1_len, s2_len,
                   set_frame_rate(c1.seg, Max(c1.seg.frame_rate, c2.seg.frame_rate)),
                   set_frame_rate(c2.seg, Max(c1.seg.frame_rate, c2.seg.frame_rate)))

\* AudioSegment._sync(seg1, seg2)
_sync(seg1, seg2) ==
    SyncChannels(__len__(seg1), __len__(seg2),
                 set_channels(seg1, Max(seg1.channels, seg2.channels)),
                 set_channels(seg2, Max(seg1.channels, seg2.channels)))

\* self.apply_gain(volume_change)
apply_gain(self, volume_change) ==
    LET d == audioop_mul(self.data, self.sample_width, db_to_float(volume_change))
    IN  IF d.err # NoError THEN ErrSeg(d.err)
        ELSE OkSeg(_spawn(self, d.data, spawn_default))

\* self.reverse()
reverse(self) ==
    LET d == audioop_reverse(self.data, self.sample_width)
    IN  IF d.err # NoError THEN ErrSeg(d.err)
        ELSE OkSeg(_spawn(self, d.data, spawn_default))

\* self * arg for a number arg: the buffer repeated
repeat(self, arg) == OkSeg(_spawn(self, Repeat(self.data, arg), spawn_default))

\* what is returned in place of a segment when a loop never ends
Diverges == "nonterminating"

\* the mixing loop of overlay from byte position pos on: the bytes written
\* and the final pos.  With an empty seg2, bytes of seg1 left and loop set,
\* no iteration advances pos or clears loop.
RECURSIVE OverlayLoop(_, _, _, _, _)
OverlayLoop(seg1, seg2, pos, loop, sample_width) ==
    LET remaining == Max(0, Len(seg1) - pos)
        fits == Len(seg2) >= remaining
        seg2t == IF fits THEN PySlice(seg2, 0, remaining) ELSE seg2
        loopt == IF fits THEN FALSE ELSE loop
        mixed == audioop_add(PySlice(seg1, pos, pos + Len(seg2t)), seg2t, sample_width)
        rest == OverlayLoop(seg1, seg2t, pos + Len(seg2t), loopt, sample_width)
    IN  IF mixed.err # NoError THEN [err |-> mixed.err, data |-> <<>>, pos |-> pos]
        ELSE IF ~loopt THEN [err |-> NoError, data |-> mixed.data, pos |-> pos + Len(seg2t)]
        ELSE IF Len(seg2t) = 0 THEN [err |-> Diverges, data |-> <<>>, pos |-> pos]
        ELSE IF rest.err # NoError THEN rest
        ELSE [err |-> NoError, data |-> mixed.data \o rest.data, pos |-> rest.pos]

\* the output of overlay (lines 476-497): head is seg1[:position], mix what
\* the loop wrote, and the rest of tail = seg1[position:] follows
OverlayWritten(seg1, head, tail, mix) ==
    IF mix.err # NoError THEN ErrSeg(mix.err)
    ELSE OkSeg(_spawn(seg1, head \o mix.data \o PySlice(tail, mix.pos, Len(tail)),
                      spawn_default))

OverlayMixed(seg1, seg2, head, tail, loop) ==
    IF head.err # NoError THEN ErrSeg(head.err)
    ELSE IF tail.err # NoError THEN ErrSeg(tail.err)
    ELSE OverlayWritten(seg1, head.seg.data, tail.seg.data,
                        OverlayLoop(tail.seg.data, seg2.data, 0, loop, seg1.sample_width))

\* overlay once _sync has returned sy (line 469)
OverlaySynced(sy, position, loop) ==
    IF sy.err # NoError THEN ErrSeg(sy.err)
    ELSE OverlayMixed(sy.seg1, sy.seg2,
                      __getitem__(sy.seg1, Slice(None, I(position))),
                      __getitem__(sy.seg1, Slice(I(position), None)), loop)

\* self.overlay(seg, position, loop)
overlay(self, seg, position, loop) == OverlaySynced(_sync(self, seg), position, loop)

\* from_power + (gain_delta / steps) * i, for gain_delta = to_power - from_power
\* and steps = sn / sd a positive rational
RampFactor(from_power, to_power, i, sn, sd) ==
    Factor(from_power.p * sn + (to_power.p - from_power.p) * i * sd,
           from_power.q * sn + (to_power.q - from_power.q) * i * sd,
           sn)

\* the chunks a ramp appends to the output: this step's, then the later ones
RampChunks(mul, rest) ==
    IF mul.err # NoError THEN mul
    ELSE IF rest.err # NoError THEN rest
    ELSE OkData(mul.data \o rest.data)

\* the coarse ramp of fade: for i in range(duration), the millisecond
\* chunk = self[start + i] scaled by from_power + (gain_delta / duration) * i
RECURSIVE CoarseRamp(_, _, _, _, _, _)
RECURSIVE CoarseStep(_, _, _, _, _, _, _)
CoarseStep(self, start, duration, i, from_power, to_power, chunk) ==
    IF chunk.err # NoError THEN ErrData(chunk.err)
    ELSE RampChunks(audioop_mul(chunk.seg.data, self.sample_width,
                                RampFactor(from_power, to_power, i, duration, 1)),
                    CoarseRamp(self, start, duration, i + 1, from_power, to_power))

CoarseRamp(self, start, duration, i, from_power, to_power) ==
    IF i >= duration THEN OkData(<<>>)
    ELSE CoarseStep(self, start, duration, i, from_power, to_power,
                    __getitem__(self, Index(start + i)))

\* the precise ramp of fade: for i in range(int(fade_frames)), the frame
\* int(start_frame + i) scaled by from_power + (gain_delta / fade_frames) * i,
\* where start_frame = sf / 1000 and fade_frames = ff / 1000
RECURSIVE PreciseRamp(_, _, _, _, _, _)
PreciseRamp(self, sf, ff, i, from_power, to_power) ==
    IF i >= Trunc(ff, 1000) THEN OkData(<<>>)
    ELSE RampChunks(audioop_mul(get_frame(self, Trunc(sf + 1000 * i, 1000)),
                                self.sample_width,
                                RampFactor(from_power, to_power, i, ff, 1000)),
                    PreciseRamp(self, sf, ff, i + 1, from_power, to_power))

\* a flat part of fade, part = self[:start] or self[end:], scaled when its
\* gain is not 0 (lines 570-575 and 604-609)
FadeFlat(self, part, gain) ==
    IF part.err # NoError THEN ErrData(part.err)
    ELSE IF gain # 0
    THEN audioop_mul(part.seg.data, self.sample_width, db_to_float(gain))
    ELSE OkData(part.seg.data)

\* the output of fade: the three parts joined (line 611)
FadeOutput(self, before_fade, ramp, after_fade) ==
    IF ramp.err # NoError THEN ErrSeg(ramp.err)
    ELSE IF after_fade.err # NoError THEN ErrSeg(after_fade.err)
    ELSE OkSeg(_spawn(self, Join(<<before_fade.data, ramp.data, after_fade.data>>),
                      spawn_default))

\* the ramp of fade between the frames sf / 1000 and ef / 1000 (lines
\* 577-602) and what follows it
FadeRamp(self, to_gain, from_gain, start, end, duration, sf, ef, before_fade) ==
    IF before_fade.err # NoError THEN ErrSeg(before_fade.err)
    ELSE IF duration > 100 /\ IsNone(start) THEN ErrSeg("TypeError")
    ELSE IF duration <= 100 /\ ef - sf = 0 THEN ErrSeg("ZeroDivisionError")
    ELSE FadeOutput(self, before_fade,
                    IF duration > 100
                    THEN CoarseRamp(self, start.v, duration, 0,
                                    db_to_float(from_gain), db_to_float(to_gain))
                    ELSE PreciseRamp(self, sf, ef - sf, 0,
                                     db_to_float(from_gain), db_to_float(to_gain)),
                    FadeFlat(self, __getitem__(self, Slice(end, None)), to_gain))

\* the part of fade after its arguments are resolved (lines 566-611):
\* start and end are integers or None, duration is an integer
FadeBody(self, to_gain, from_gain, start, end, duration) ==
    FadeRamp(self, to_gain, from_gain, start, end, duration,
             IF IsNone(start) THEN 1000 * frame_count(self)
             ELSE frame_count_ms(self, start.v)[1],
             IF IsNone(end) THEN 1000 * frame_count(self)
             ELSE frame_count_ms(self, end.v)[1],
             FadeFlat(self, __getitem__(self, Slice(None, start)), from_gain))

\* fade once start and end are limited by len(self) and counted from the
\* end when negative (lines 555-564)
FadeResolved(self, to_gain, from_gain, start, end, duration) ==
    IF ~IsNone(duration) /\ duration.v < 0 THEN ErrSeg("InvalidDuration")
    ELSE IF ~IsNone(duration) /\ duration.v # 0
    THEN FadeBody(self, to_gain, from_gain,
                  IF IsNone(start) /\ ~IsNone(end) THEN I(end.v - duration.v) ELSE start,
                  IF ~IsNone(start) THEN I(start.v + duration.v) ELSE end,
                  duration.v)
    ELSE IF IsNone(start) \/ IsNone(end) THEN ErrSeg("TypeError")
    ELSE FadeBody(self, to_gain, from_gain, start, end, end.v - start.v)

\* min(len(self), val) if val is not None, then val += len(self) if val < 0
FadeBound(self, val) ==
    IF IsNone(val) THEN None
    ELSE IF MinLen(__len__(self), val) < 0 THEN I(MinLen(__len__(self), val) + __len__(self))
    ELSE I(MinLen(__len__(self), val))

\* self.fade(to_gain, from_gain, start, end, duration); start, end and
\* duration are integers or None, end may be float('inf')
fade(self, to_gain, from_gain, start, end, duration) ==
    IF ~IsNone(duration) /\ ~IsNone(end) /\ ~IsNone(start) THEN ErrSeg("TypeError")
    ELSE IF to_gain = 0 /\ from_gain = 0 THEN OkSeg(self)
    ELSE FadeResolved(self, to_gain, from_gain, FadeBound(self, start),
                      FadeBound(self, end), duration)

\* self.fade_out(duration) and self.fade_in(duration)
fade_out(self, duration) == fade(self, -120, 0, None, Inf, duration)
fade_in(self, duration) == fade(self, 0, -120, I(0), None, duration)

\* part.fade(to_gain, from_gain, start=0, end=float('inf')) for part a
\* slice of append (lines 507 and 508)
CrossfadePart(part, to_gain, from_gain) ==
    IF part.err # NoError THEN part
    ELSE fade(part.seg, to_gain, from_gain, I(0), Inf, None)

\* xf *= ...: the faded end of seg1 overlaid with the faded start of seg2
Crossfade(xf1, xf2) ==
    IF xf1.err # NoError THEN xf1
    ELSE IF xf2.err # NoError THEN xf2
    ELSE overlay(xf1.seg, xf2.seg, 0, TRUE)

\* the output of append with a crossfade (lines 510-515)
AppendWritten(seg1, xf, head, tail) ==
    IF xf.err # NoError THEN xf
    ELSE IF head.err # NoError THEN head
    ELSE IF tail.err # NoError THEN tail
    ELSE OkSeg(_spawn(seg1, head.seg.data \o xf.seg.data \o tail.seg.data, spawn_default))

\* append once _sync has returned sy (line 502)
AppendSynced(sy, crossfade) ==
    IF sy.err # NoError THEN ErrSeg(sy.err)
    ELSE IF crossfade = 0
    THEN OkSeg(_spawn(sy.seg1, sy.seg1.data \o sy.seg2.data, spawn_default))
    ELSE AppendWritten(
             sy.seg1,
             Crossfade(CrossfadePart(__getitem__(sy.seg1, Slice(I(-crossfade), None)),
                                     -120, 0),
                       CrossfadePart(__getitem__(sy.seg2, Slice(None, I(crossfade))),
                                     0, -120)),
             __getitem__(sy.seg1, Slice(None, I(-crossfade))),
             __getitem__(sy.seg2, Slice(I(crossfade), None)))

\* self.append(seg, crossfade)
append(self, seg, crossfade) == AppendSynced(_sync(self, seg), crossfade)

----------------------------------------------------------------------------
(* The state machine.  segs holds the two segments a caller has decoded     *)
(* (AudioSegment.__init__, lines 57-68, or AudioSegment.empty()); last      *)
(* records the call in progress: the operation, its operands segs[x] and    *)
(* segs[y], its arguments, and the exception raised or the segment(s)       *)
(* returned; spawn_default is the mapping object that is the default value  *)
(* of _spawn's overrides parameter, shared by every call that omits it.     *)

\* the bytes of the k-th decoded segment: small positive ones for the
\* first, negative samples for the second
Content(k, n) == [j \in 1..n |-> IF k = 1 THEN j ELSE 256 - 3 * j]

\* the segment __init__ builds from a wave file of n frames
Decoded(k, channels, sample_width, frame_rate, n) ==
    AudioSegment(Content(k, n * channels * sample_width),
                 [channels |-> channels, sample_width |-> sample_width,
                  frame_rate |-> frame_rate, frame_width |-> channels * sample_width])

InitSegs(k) ==
    {Decoded(k, c, w, r, n) : c \in Channels, w \in Widths, r \in Rates, n \in 1..MaxFrames}
        \cup {empty}

Operands == 1..2

\* the argument sets of the calls
MsArgs == {None} \cup {I(k) : k \in (-MaxMs)..MaxMs}
SampleArgs == {None} \cup {I(k) : k \in (-1)..MaxFrames}
FadeStarts == {None, I(0), I(1)}
FadeEnds == {None, Inf, I(2)}
FadeDurations == {None, I(-1), I(1)}

Idle == [op |-> "idle", x |-> 0, y |-> 0, a |-> None, b |-> None, c |-> None,
         n |-> 0, to_gain |-> 0, from_gain |-> 0, loop |-> FALSE,
         err |-> NoError, res |-> empty, res2 |-> empty]

\* the record of a call that returned (or raised) r
Call(op, x, r) == [Idle EXCEPT !.op = op, !.x = x, !.err = r.err, !.res = r.seg]

\* spawn_default after a call on self that spawned with the default overrides
DefaultAfter(r, self) ==
    IF r.err = NoError THEN SpawnOverridesAfter(spawn_default, Metadata(self))
    ELSE spawn_default

Init ==
    /\ segs \in {<<s1, s2>> : s1 \in InitSegs(1), s2 \in InitSegs(2)}
    /\ last = Idle
    /\ spawn_default = EmptyDict

\* segs[x][a:b]
GetSlice(x, a, b) ==
    /\ last.op = "idle"
    /\ LET r == __getitem__(segs[x], Slice(a, b))
       IN  /\ last' = [Call("slice", x, r) EXCEPT !.a = a, !.b = b]
           /\ spawn_default' = DefaultAfter(r, segs[x])
    /\ UNCHANGED segs

\* segs[x][i]
GetIndex(x, i) ==
    /\ last.op = "idle"
    /\ LET r == __getitem__(segs[x], Index(i))
       IN  /\ last' = [Call("index", x, r) EXCEPT !.n = i]
           /\ spawn_default' = DefaultAfter(r, segs[x])
    /\ UNCHANGED segs

\* segs[x].get_sample_slice(a, b)
GetSampleSlice(x, a, b) ==
    /\ last.op = "idle"
    /\ LET r == get_sample_slice(segs[x], a, b)
       IN  /\ last' = [Call("get_sample_slice", x, r) EXCEPT !.a = a, !.b = b]
           /\ spawn_default' = DefaultAfter(r, segs[x])
    /\ UNCHANGED segs

\* segs[x].append(segs[y], crossfade=c); segs[x] + segs[y] is the case c = 0
AppendSeg(x, y, c) ==
    /\ last.op = "idle"
    /\ LET r == append(segs[x], segs[y], c)
       IN  /\ last' = [Call("append", x, r) EXCEPT !.y = y, !.n = c]
           /\ spawn_default' = DefaultAfter(r, segs[x])
    /\ UNCHANGED segs

\* segs[x].overlay(segs[y], position=p, loop=loop); segs[x] * segs[y] is the
\* case p = 0, loop = TRUE
Overlay(x, y, p, loop) ==
    /\ last.op = "idle"
    /\ LET r == overlay(segs[x], segs[y], p, loop)
       IN  /\ last' = [Call("overlay", x, r) EXCEPT !.y = y, !.n = p, !.loop = loop]
           /\ spawn_default' = DefaultAfter(r, segs[x])
    /\ UNCHANGED segs

\* segs[x] * k
Mul(x, k) ==
    /\ last.op = "idle"
    /\ LET r == repeat(segs[x], k)
       IN  /\ last' = [Call("repeat", x, r) EXCEPT !.n = k]
           /\ spawn_default' = DefaultAfter(r, segs[x])
    /\ UNCHANGED segs

\* segs[x].fade(to_gain, from_gain, start, end, duration)
Fade(x, to_gain, from_gain, start, end, duration) ==
    /\ last.op = "idle"
    /\ LET r == fade(segs[x], to_gain, from_gain, start, end, duration)
       IN  /\ last' = [Call("fade", x, r) EXCEPT !.to_gain = to_gain,
                          !.from_gain = from_gain, !.a = start, !.b = end, !.c = duration]
           /\ spawn_default' = IF r.err = NoError /\ r.seg = segs[x] /\ to_gain = 0 /\ from_gain = 0
                               THEN spawn_default
                               ELSE DefaultAfter(r, segs[x])
    /\ UNCHANGED segs

\* segs[x].fade_in(d)
FadeIn(x, d) ==
    /\ last.op = "idle"
    /\ LET r == fade_in(segs[x], d)
       IN  /\ last' = [Call("fade_in", x, r) EXCEPT !.c = d]
           /\ spawn_default' = DefaultAfter(r, segs[x])
    /\ UNCHANGED segs

\* segs[x].fade_out(d)
FadeOut(x, d) ==
    /\ last.op = "idle"
    /\ LET r == fade_out(segs[x], d)
       IN  /\ last' = [Call("fade_out", x, r) EXCEPT !.c = d]
           /\ spawn_default' = DefaultAfter(r, segs[x])
    /\ UNCHANGED segs

\* segs[x].apply_gain(g)
ApplyGain(x, g) ==
    /\ last.op = "idle"
    /\ LET r == apply_gain(segs[x], g)
       IN  /\ last' = [Call("apply_gain", x, r) EXCEPT !.to_gain = g]
           /\ spawn_default' = DefaultAfter(r, segs[x])
    /\ UNCHANGED segs

\* segs[x].reverse()
Reverse(x) ==
    /\ last.op = "idle"
    /\ LET r == reverse(segs[x])
       IN  /\ last' = Call("reverse", x, r)
           /\ spawn_default' = DefaultAfter(r, segs[x])
    /\ UNCHANGED segs

\* segs[x].set_channels(c): _spawn is given its overrides
SetChannels(x, c) ==
    /\ last.op = "idle"
    /\ last' = [Call("set_channels", x, set_channels(segs[x], c)) EXCEPT !.n = c]
    /\ UNCHANGED <<segs, spawn_default>>

\* segs[x].set_frame_rate(r): _spawn is given its overrides
SetFrameRate(x, r) ==
    /\ last.op = "idle"
    /\ last' = [Call("set_frame_rate", x, set_frame_rate(segs[x], r)) EXCEPT !.n = r]
    /\ UNCHANGED <<segs, spawn_default>>

\* AudioSegment._sync(segs[x], segs[y])
Sync(x, y) ==
    /\ last.op = "idle"
    /\ LET r == _sync(segs[x], segs[y])
       IN  last' = [Idle EXCEPT !.op = "_sync", !.x = x, !.y = y, !.err = r.err,
                                !.res = r.seg1, !.res2 = r.seg2]
    /\ UNCHANGED <<segs, spawn_default>>

\* the caller drops the result (or handles the exception)
Return ==
    /\ last.op # "idle"
    /\ last' = Idle
    /\ UNCHANGED <<segs, spawn_default>>

Next ==
    \/ \E x \in Operands, a \in MsArgs, b \in MsArgs : GetSlice(x, a, b)
    \/ \E x \in Operands, i \in 0..MaxMs : GetIndex(x, i)
    \/ \E x \in Operands, a \in SampleArgs, b \in SampleArgs : GetSampleSlice(x, a, b)
    \/ \E x \in Operands, y \in Operands, c \in 0..MaxCrossfade : AppendSeg(x, y, c)
    \/ \E x \in Operands, y \in Operands, p \in 0..MaxMs, loop \in BOOLEAN :
          Overlay(x, y, p, loop)
    \/ \E x \in Operands, k \in 0..MaxRepeat : Mul(x, k)
    \/ \E x \in Operands, tg \in Gains, fg \in Gains, st \in FadeStarts,
          en \in FadeEnds, du \in FadeDurations : Fade(x, tg, fg, st, en, du)
    \/ \E x \in Operands, d \in FadeDurations \ {None} : FadeIn(x, d)
    \/ \E x \in Operands, d \in FadeDurations \ {None} : FadeOut(x, d)
    \/ \E x \in Operands, g \in Gains : ApplyGain(x, g)
    \/ \E x \in Operands : Reverse(x)
    \/ \E x \in Operands, c \in Channels : SetChannels(x, c)
    \/ \E x \in Operands, r \in Rates : SetFrameRate(x, r)
    \/ \E x \in Operands, y \in Operands : Sync(x, y)
    \/ Return

Spec == Init /\ [][Next]_vars

----------------------------------------------------------------------------
(* Properties.  A call is judged in the state it leaves: last names the     *)
(* operation, the operands and the arguments, and holds the outcome.        *)

\* the operand(s) of the call in last
Self == segs[last.x]
Other == segs[last.y]
Returned == last.op # "idle" /\ last.err = NoError

\* frame k (from 0) of a segment, and the number of whole frames it holds
Frame(s, k) == SubSeq(s.data, k * s.frame_width + 1, (k + 1) * s.frame_width)

FrameAligned(s) ==
    /\ s.frame_width = s.channels * s.sample_width
    /\ Len(s.data) % s.frame_width = 0

\* C1: every segment an operation returns is frame-aligned: frame_width is
\* channels * sample_width and the buffer is a whole number of frames.
C1_FrameAlignment ==
    (Returned /\ last.op # "_sync") => FrameAligned(last.res)

\* C2: a full slice s[:] has the length of s and a buffer byte-identical to
\* that of s.
C2_FullSliceIdentity ==
    (last.op = "slice" /\ IsNone(last.a) /\ IsNone(last.b))
        => /\ last.err = NoError
           /\ __len__(last.res) = __len__(Self)
           /\ last.res.data = Self.data

\* C3 as stated: for every segment s and 0 <= i < len(s), s[i] is a segment
\* of length 1 ms.
C3_SingleMsIndex ==
    (last.op = "index" /\ 0 <= last.n /\ last.n < __len__(Self))
        => (last.err = NoError /\ __len__(last.res) = 1)

\* C3 as amended: for every segment s whose frame rate is a multiple of
\* 1000 Hz and 0 <= i < len(s), s[i] is a segment of length 1 ms.
C3_SingleMsIndexWholeKHz ==
    (last.op = "index" /\ 0 <= last.n /\ last.n < __len__(Self)
        /\ Self.frame_rate % 1000 = 0)
        => (last.err = NoError /\ __len__(last.res) = 1)

\* a 3000 Hz segment is indexed at its last millisecond, which the buffer
\* covers only in part: the millisecond returned is padded to 3 frames
C3_Witness ==
    /\ last.op = "index" /\ last.n = __len__(Self) - 1
    /\ Self.frame_rate = 3000 /\ frame_count(Self) = 2
    /\ last.err = NoError /\ __len__(last.res) = 1 /\ frame_count(last.res) = 3

\* C4: for 0 <= c <= min(len(a), len(b)), a.append(b, crossfade=c) lasts
\* len(a) + len(b) - c milliseconds.
C4_AppendDuration ==
    (last.op = "append" /\ last.n <= Min(__len__(Self), __len__(Other)))
        => /\ last.err = NoError
           /\ __len__(last.res) = __len__(Self) + __len__(Other) - last.n

\* C5: _sync returns two segments of the durations of its inputs: its two
\* assertions never fail.
C5_SyncKeepsDuration ==
    (last.op = "_sync")
        => /\ last.err = NoError
           /\ __len__(last.res) = __len__(Self)
           /\ __len__(last.res2) = __len__(Other)

\* what C6 expects at frame k of base.overlay(other, p, loop), for p
\* resolved to the frame pf
OverlayExpected(base, other, pf, loop, k) ==
    LET n2 == frame_count(other)
    IN  IF k < pf \/ (~loop /\ k - pf >= n2) THEN Frame(base, k)
        ELSE audioop_add(Frame(base, k), Frame(other, (k - pf) % n2),
                         base.sample_width).data

\* C6: for base and a non-empty other of the same format and 0 <= p <=
\* len(base), the overlay lasts as long as base and holds, at every frame of
\* base, base's frame before p and the mix with other (repeated when loop
\* is set, mixed once otherwise) from p on.
C6_OverlayPattern ==
    (last.op = "overlay" /\ Metadata(Self) = Metadata(Other) /\ Other.data # <<>>
        /\ last.n <= __len__(Self))
        => /\ last.err = NoError
           /\ __len__(last.res) = __len__(Self)
           /\ \A k \in 0..(frame_count(Self) - 1) :
                 /\ k < frame_count(last.res)
                 /\ Frame(last.res, k) =
                        OverlayExpected(Self, Other, _parse_position(Self, I(last.n)),
                                        last.loop, k)

\* C7: a fade with a negative duration (and not all of start, end and
\* duration given) raises InvalidDuration, whatever the two gains are.
C7_NegativeDurationRejected ==
    (last.op = "fade" /\ ~IsNone(last.c) /\ last.c.v < 0
        /\ (IsNone(last.a) \/ IsNone(last.b)))
        => last.err = "InvalidDuration"

\* C8: the bounds of a slice s[a:b] are brought into [0, len(s)]: the byte
\* offsets they resolve to lie within the frames of len(s) milliseconds, the
\* slice does not raise TooManyMissingFrames and is no longer than s.
C8_SliceBoundsClamped ==
    (last.op = "slice")
        => LET key == Slice(last.a, last.b)
               top == _parse_position(Self, I(__len__(Self))) * Self.frame_width
           IN  /\ 0 <= SliceStart(Self, key) /\ SliceStart(Self, key) <= top
               /\ 0 <= SliceEnd(Self, key) /\ SliceEnd(Self, key) <= top
               /\ last.err # "TooManyMissingFrames"
               /\ last.err = NoError => /\ __len__(last.res) <= __len__(Self)
                                        /\ Len(last.res.data) <= Len(Self.data)

\* C9: frame k of s.reverse() is byte-identical to frame n - 1 - k of s.
C9_ReverseKeepsFrames ==
    (last.op = "reverse")
        => /\ last.err = NoError
           /\ frame_count(last.res) = frame_count(Self)
           /\ \A k \in 0..(frame_count(Self) - 1) :
                 Frame(last.res, k) = Frame(Self, frame_count(Self) - 1 - k)

\* the metadata a call's result is allowed: the operand's, with the
\* overrides of that call alone
ResultMetadata ==
    IF last.op = "set_frame_rate" THEN [Metadata(Self) EXCEPT !.frame_rate = last.n]
    ELSE IF last.op = "set_channels"
    THEN [Metadata(Self) EXCEPT !.channels = last.n,
                                !.frame_width = last.n * Self.sample_width]
    ELSE IF last.op \in {"append", "overlay", "_sync"}
    THEN [Metadata(Self) EXCEPT !.channels = Max(Self.channels, Other.channels),
                                !.frame_rate = Max(Self.frame_rate, Other.frame_rate),
                                !.frame_width = Max(Self.channels, Other.channels)
                                                    * Self.sample_width]
    ELSE Metadata(Self)

\* C10: no step changes an existing segment or the shared default overrides
\* mapping of _spawn, and the metadata of every result is the operand's
\* with the overrides of that call alone.
C10_Immutable ==
    /\ [][segs' = segs /\ spawn_default' = spawn_default]_vars
    /\ [](Returned => Metadata(last.res) = ResultMetadata)

\* an append has returned a segment whose channels and frame rate were
\* overridden by _sync, from operands that differ in both
C10_Witness ==
    /\ last.op = "append" /\ last.err = NoError
    /\ Self.channels < Other.channels /\ Self.frame_rate < Other.frame_rate
    /\ last.res.channels = Other.channels /\ last.res.frame_rate = Other.frame_rate
    /\ spawn_default = EmptyDict

\* C11: every call of overlay ends: for every base, other, position and
\* loop, its mixing loop runs finitely many iterations.
C11_OverlayTerminates ==
    (last.op = "overlay") => last.err # Diverges

\* the start and the end (ms) of the ramp of the fade in last, as fade
\* resolves them from the two of start, end and duration that were given
FadeHasDuration == ~IsNone(last.c) /\ last.c.v > 0
FadeStartGiven ==
    IF ~IsNone(last.a) THEN last.a
    ELSE IF FadeHasDuration /\ ~IsNone(last.b) /\ ~IsInf(last.b)
    THEN I(last.b.v - last.c.v)
    ELSE None
FadeEndGiven ==
    IF FadeHasDuration /\ ~IsNone(last.a) THEN I(last.a.v + last.c.v)
    ELSE IF IsInf(last.b) THEN None
    ELSE last.b

\* the calls of fade C12 is about: a gain that is not 0, two of the three
\* arguments given, and 0 <= start <= end <= len(s)
FadeInRange ==
    /\ last.op = "fade"
    /\ last.to_gain # 0 \/ last.from_gain # 0
    /\ IsNone(last.a) \/ IsNone(last.b) \/ IsNone(last.c)
    /\ IsNone(last.c) \/ last.c.v > 0
    /\ ~IsNone(FadeStartGiven) /\ ~IsNone(FadeEndGiven)
    /\ 0 <= FadeStartGiven.v /\ FadeStartGiven.v <= FadeEndGiven.v
    /\ FadeEndGiven.v <= __len__(Self)

\* C12: a fade with 0 <= start <= end <= len(s) returns as many frames as
\* s[:] holds: the head s[:start], the ramp chunks and the tail s[end:]
\* follow one another with no frame of s dropped or duplicated.
C12_FadeRegionsContiguous ==
    FadeInRange
        => /\ last.err = NoError
           /\ frame_count(last.res) = frame_count(__getitem__(Self, Slice(None, None)).seg)

====
